---- MODULE Spec2Model ----
(***************************************************************************)
(* Model of the jarvis-rs agent orchestration core:                        *)
(*   - AgentStateMachine / AgentContext        (src/src/agent/fsm.rs)      *)
(*   - Agent::process, run_fsm_loop,                                       *)
(*     execute_mcp_tool, remove_mcp_client     (src/src/agent/executor.rs) *)
(*   - HistoryStorage save/list as used by process()                       *)
(*                                             (src/src/history/storage.rs)*)
(* One process() invocation is in flight at a time (it takes &mut self).   *)
(* Every iteration of the driver loop is one action; the LLM backend and   *)
(* the tool servers are the environment and answer nondeterministically.   *)
(***************************************************************************)
EXTENDS Integers, Sequences, FiniteSets, TLC

VARIABLES
    \* ---- Agent (executor.rs:15-23)
    mcp_clients,          \* keys of the live-connection map
    tool_to_client_map,   \* tool name -> client name
    available_tools,      \* catalog advertised to the LLM (tool names)
    \* ---- HistoryStorage rows, in insertion order
    history,
    \* ---- AgentStateMachine / AgentContext of the invocation in flight
    state,
    messages,
    current_turn,
    max_turns,
    pending_tool_calls,
    tool_call_results,
    tool_call_id_mapping,
    last_error,
    llm_response,
    \* ---- driver (process / run_fsm_loop)
    pc,                   \* "new" | "idle" | "loop" | "returned"
    loop_iteration,
    session_id,
    result,               \* what process() returned
    \* ---- observations of the current invocation
    llm_calls,            \* create_chat_completion invocations
    llm_log,              \* replies the LLM gave, in order
    tool_log,             \* call_tool invocations <<client, tool>>, in order
    hist_start,           \* Len(history) when the invocation started
    \* ---- Agent::new (executor.rs:26-100)
    mcp_configs,          \* server configs the start-up loop has not reached
    startup_log,          \* configs the start-up loop has handled, in order
    stored_client,        \* per key of mcp_clients: the position of the config
                          \* whose connection Agent::new stored under it
    llm_args,             \* the arguments strings the configured LLM produces
    \* ---- an AgentStateMachine driven directly through process_event
    event_log,            \* events sent, each with the Result it got
    \* ---- HistoryStorage (storage.rs:7-11) and the tasks that call it
    db,                   \* Option<Database>: TRUE when it is Some
    db_rows,              \* rows of table `messages`
    fallback,             \* the in-memory Vec<Message>
    save_tasks,           \* per task: the message it saves and its position
    save_log,             \* tasks whose save() returned Ok, in that order
    listed,               \* what the latest list() returned
    \* ---- the HTTP server (server/mod.rs:19-22, server/handlers.rs)
    agent_lock,           \* Mutex<Agent>: the request holding it, or 0
    requests,             \* per request: how far its handler has come
    \* ---- one StdioMcpClient and its child process (mcp/stdio.rs)
    client_type,          \* McpClientType of the connection: "stdio" or "sse"
    process_lock,         \* Mutex<Option<Child>>: the caller holding it, or 0
    child_alive,          \* the child process is running
    child_stdin,          \* request lines written and not yet consumed
    child_stdout,         \* response lines written and not yet read
    callers               \* per send_request call: its position and result

agent_vars == <<mcp_clients, tool_to_client_map, available_tools>>
ctx_vars == <<messages, current_turn, max_turns, pending_tool_calls,
              tool_call_results, tool_call_id_mapping, last_error, llm_response>>
obs_vars == <<llm_calls, llm_log, tool_log, hist_start>>
startup_vars == <<mcp_configs, startup_log, stored_client, llm_args>>
\* state that process() and remove_mcp_client never touch
\* everything the agent and its driver own
process_vars == <<mcp_clients, tool_to_client_map, available_tools, history,
                  state, messages, current_turn, max_turns, pending_tool_calls,
                  tool_call_results, tool_call_id_mapping, last_error,
                  llm_response, pc, loop_iteration, session_id, result,
                  llm_calls, llm_log, tool_log, hist_start>>
storage_vars == <<db, db_rows, fallback, save_tasks, save_log, listed>>
server_vars == <<agent_lock, requests>>
stdio_vars == <<client_type, process_lock, child_alive, child_stdin,
                child_stdout, callers>>
rest_vars == <<startup_vars, event_log, storage_vars, server_vars, stdio_vars>>
vars == <<mcp_clients, tool_to_client_map, available_tools, history, state,
          messages, current_turn, max_turns, pending_tool_calls,
          tool_call_results, tool_call_id_mapping, last_error, llm_response,
          pc, loop_iteration, session_id, result,
          llm_calls, llm_log, tool_log, hist_start,
          mcp_configs, startup_log, stored_client, llm_args, event_log,
          db, db_rows, fallback, save_tasks, save_log, listed,
          agent_lock, requests,
          client_type, process_lock, child_alive, child_stdin, child_stdout,
          callers>>

----------------------------------------------------------------------------
\* Bounds of the model

\* tool calls one LLM reply may carry
MaxToolCalls == 2

\* Program constants

\* executor.rs:300  `if loop_iteration > 5 { break }`
\* a driver with a higher ceiling
LoopLimit_long == 5 + 3

LoopLimit == 5
\* a budget smaller than the number of LLM calls the driver loop admits
DefaultMaxTurns_single == 2 - 1

\* fsm.rs:62  `max_turns: 10`
DefaultMaxTurns == 10

ToolNames == {"tool_A", "tool_B"}
ClientNames == {"c1", "c2", "c3"}
Sessions == {"s1", "s2"}
Inputs == {"hi"}
\* the arguments strings the LLM of a run writes into its tool calls
PlainArgStrings == {"{}"}
MixedArgStrings == {"{\"x\":1}", "not json", "[1]"}
ArgStrings == llm_args

----------------------------------------------------------------------------
\* Text values.  Every string the program formats is kept as a record of its
\* parts so that "the text names X" is a statement about a field.

Txt(kind, a, b, n, names) ==
    [kind |-> kind, a |-> a, b |-> b, n |-> n, names |-> names]

EmptyText == Txt("", "", "", 0, {})
IsEmptyText(t) == t = EmptyText

\* executor.rs:80-81 / 569-585 (default prompt, no discovered fragments)
SystemPromptText == Txt("system_prompt", "", "", 0, {})
UserText(input) == Txt("user_input", input, "", 0, {})
\* content of the n-th LLM reply of an invocation
LlmContent(n) == Txt("llm_content", "", "", n, {})
\* text a tool server returns for the i-th request of a round
ToolText(tool, i) == Txt("tool_text", tool, "", i, {})

\* Option<String> for tool_call_id, Option<String> for last_error
NoId == 0
NoError == EmptyText

\* ids the LLM backend generates: fresh per reply n and position i
LlmCallId(n, i) == 10 * n + i
\* executor.rs:506  format!("tool_call_{index}")  (index is 0-based)
FallbackId(index) == 0 - (index + 1)

----------------------------------------------------------------------------
\* Value types

\* llm/types.rs:11-18
ChatMessage(role, content, tool_calls, tool_call_id) ==
    [role |-> role, content |-> content, tool_calls |-> tool_calls,
     tool_call_id |-> tool_call_id]

\* history/types.rs:13-31
Message(sid, role, content) ==
    [session_id |-> sid, role |-> role, content |-> content]

\* mcp/client.rs McpToolCallResponse; an item is Text{text} or Image{..}
McpText(t) == [type |-> "text", text |-> t]
McpImage == [type |-> "image", text |-> EmptyText]
McpResponse(content, is_error) == [content |-> content, is_error |-> is_error]

\* process() outcome
Ok(text) == [ok |-> TRUE, kind |-> "Ok", text |-> text]
Err(kind, text) == [ok |-> FALSE, kind |-> kind, text |-> text]
NoResult == [ok |-> FALSE, kind |-> "none", text |-> EmptyText]

NoResponse == [present |-> FALSE, choices |-> 0, content |-> EmptyText,
               tool_calls |-> <<>>]

----------------------------------------------------------------------------
\* AgentStateMachine (fsm.rs)

States == {"ReadyToCallLlm", "AwaitingLlmResponse", "ExecutingTools",
           "Done", "Error"}
Events == {"ProcessInput", "LlmRespondedWithContent", "LlmRequestedTools",
           "ToolsExecutionCompleted", "ToolsExecutionFailed", "ErrorOccurred"}

\* an event outside the table is refused but leaves the machine in Error
transition_poisoning(s, e) ==
    CASE s = "ReadyToCallLlm" /\ e = "ProcessInput" ->
            [ok |-> TRUE, state |-> "AwaitingLlmResponse"]
      [] s = "AwaitingLlmResponse" /\ e = "LlmRespondedWithContent" ->
            [ok |-> TRUE, state |-> "Done"]
      [] s = "AwaitingLlmResponse" /\ e = "LlmRequestedTools" ->
            [ok |-> TRUE, state |-> "ExecutingTools"]
      [] s = "AwaitingLlmResponse" /\ e = "ErrorOccurred" ->
            [ok |-> TRUE, state |-> "Error"]
      [] s = "ExecutingTools" /\ e = "ToolsExecutionCompleted" ->
            [ok |-> TRUE, state |-> "ReadyToCallLlm"]
      [] s = "ExecutingTools" /\ e = "ToolsExecutionFailed" ->
            [ok |-> TRUE, state |-> "Error"]
      [] s = "ExecutingTools" /\ e = "ErrorOccurred" ->
            [ok |-> TRUE, state |-> "Error"]
      [] s = "ReadyToCallLlm" /\ e = "ErrorOccurred" ->
            [ok |-> TRUE, state |-> "Error"]
      [] OTHER -> [ok |-> FALSE, state |-> "Error"]

\* a table without the edge that ends a tool round
transition_no_round_end(s, e) ==
    CASE s = "ReadyToCallLlm" /\ e = "ProcessInput" ->
            [ok |-> TRUE, state |-> "AwaitingLlmResponse"]
      [] s = "AwaitingLlmResponse" /\ e = "LlmRespondedWithContent" ->
            [ok |-> TRUE, state |-> "Done"]
      [] s = "AwaitingLlmResponse" /\ e = "LlmRequestedTools" ->
            [ok |-> TRUE, state |-> "ExecutingTools"]
      [] s \in {"AwaitingLlmResponse", "ExecutingTools", "ReadyToCallLlm"}
            /\ e = "ErrorOccurred" ->
            [ok |-> TRUE, state |-> "Error"]
      [] s = "ExecutingTools" /\ e = "ToolsExecutionFailed" ->
            [ok |-> TRUE, state |-> "Error"]
      [] OTHER -> [ok |-> FALSE, state |-> s]

\* a failed LLM call sends the machine back to ReadyToCallLlm (a retry)
transition_retrying(s, e) ==
    CASE s = "ReadyToCallLlm" /\ e = "ProcessInput" ->
            [ok |-> TRUE, state |-> "AwaitingLlmResponse"]
      [] s = "AwaitingLlmResponse" /\ e = "LlmRespondedWithContent" ->
            [ok |-> TRUE, state |-> "Done"]
      [] s = "AwaitingLlmResponse" /\ e = "LlmRequestedTools" ->
            [ok |-> TRUE, state |-> "ExecutingTools"]
      [] s = "AwaitingLlmResponse" /\ e = "ErrorOccurred" ->
            [ok |-> TRUE, state |-> "ReadyToCallLlm"]
      [] s = "ExecutingTools" /\ e = "ToolsExecutionCompleted" ->
            [ok |-> TRUE, state |-> "ReadyToCallLlm"]
      [] s \in {"ExecutingTools", "ReadyToCallLlm"} /\ e = "ErrorOccurred" ->
            [ok |-> TRUE, state |-> "Error"]
      [] s = "ExecutingTools" /\ e = "ToolsExecutionFailed" ->
            [ok |-> TRUE, state |-> "Error"]
      [] OTHER -> [ok |-> FALSE, state |-> s]

\* fsm.rs:147-197.  [ok, state]: on an invalid pair the state is kept and
\* the call returns Err(Error::fsm(..)).
transition(s, e) ==
    CASE s = "ReadyToCallLlm" /\ e = "ProcessInput" ->
            [ok |-> TRUE, state |-> "AwaitingLlmResponse"]
      [] s = "AwaitingLlmResponse" /\ e = "LlmRespondedWithContent" ->
            [ok |-> TRUE, state |-> "Done"]
      [] s = "AwaitingLlmResponse" /\ e = "LlmRequestedTools" ->
            [ok |-> TRUE, state |-> "ExecutingTools"]
      [] s = "AwaitingLlmResponse" /\ e = "ErrorOccurred" ->
            [ok |-> TRUE, state |-> "Error"]
      [] s = "ExecutingTools" /\ e = "ToolsExecutionCompleted" ->
            [ok |-> TRUE, state |-> "ReadyToCallLlm"]
      [] s = "ExecutingTools" /\ e = "ToolsExecutionFailed" ->
            [ok |-> TRUE, state |-> "Error"]
      [] s = "ExecutingTools" /\ e = "ErrorOccurred" ->
            [ok |-> TRUE, state |-> "Error"]
      [] s = "ReadyToCallLlm" /\ e = "ErrorOccurred" ->
            [ok |-> TRUE, state |-> "Error"]
      [] OTHER -> [ok |-> FALSE, state |-> s]

\* fsm.rs:203-213
process_event(s, e) == transition(s, e)

\* only Done counts as terminal
is_terminal_done_only(s) == s = "Done"

\* fsm.rs:199-201
is_terminal(s) == s \in {"Done", "Error"}

\* the first message is returned instead of the last
get_final_content_first(msgs) ==
    IF Len(msgs) > 0 THEN msgs[1].content ELSE EmptyText

\* fsm.rs:223-229
get_final_content(msgs) ==
    IF Len(msgs) > 0 THEN msgs[Len(msgs)].content ELSE EmptyText

----------------------------------------------------------------------------
\* HistoryStorage as process() uses it (one backing store, insertion order)

\* storage.rs:107-174
list(h, sid) == SelectSeq(h, LAMBDA m : m.session_id = sid)

\* a store that keeps assistant rows only
save_assistant_only(h, m) ==
    IF m.role = "user" THEN h ELSE Append(h, m)

\* storage.rs:64-105
save(h, m) == Append(h, m)

----------------------------------------------------------------------------
\* Tool routing (executor.rs:594-677)

\* what a live connection's call_tool can answer
ToolOutcomes == {"text", "image", "fail"}

\* executor.rs:614-636: the routed connection is called
call_tool_result(name, i, outcome) ==
    CASE outcome = "text" -> McpResponse(<<McpText(ToolText(name, i))>>, FALSE)
      [] outcome = "image" -> McpResponse(<<McpImage>>, FALSE)
      [] OTHER ->
            McpResponse(<<McpText(Txt("tool_execution_failed", "", "", i, {}))>>,
                        TRUE)

\* the route is followed without looking the connection up
execute_mcp_tool_unchecked(call, i, outcome) ==
    IF call.name \in DOMAIN tool_to_client_map
    THEN call_tool_result(call.name, i, outcome)
    ELSE McpResponse(
           <<McpText(Txt("no_client_mapping", call.name, "", 0,
                         DOMAIN tool_to_client_map))>>, TRUE)

\* executor.rs:594-677; i is the position of the request in its round
execute_mcp_tool(call, i, outcome) ==
    IF call.name \in DOMAIN tool_to_client_map
    THEN IF tool_to_client_map[call.name] \in mcp_clients
         THEN call_tool_result(call.name, i, outcome)
         ELSE McpResponse(
                <<McpText(Txt("client_unavailable", call.name,
                              tool_to_client_map[call.name], 0, {}))>>, TRUE)
    ELSE McpResponse(
           <<McpText(Txt("no_client_mapping", call.name, "", 0,
                         DOMAIN tool_to_client_map))>>, TRUE)

\* from the second round on every call goes to connection c2, whatever the
\* route says
calls_made_any_client(call, n, i, outcome) ==
    IF /\ call.name \in DOMAIN tool_to_client_map
       /\ tool_to_client_map[call.name] \in mcp_clients
    THEN <<[round |-> n, index |-> i,
            client |-> IF n = 1 THEN tool_to_client_map[call.name]
                       ELSE "c2",
            tool |-> call.name, outcome |-> outcome]>>
    ELSE <<>>

\* the call_tool invocation execute_mcp_tool makes for request i of round n
calls_made(call, n, i, outcome) ==
    IF /\ call.name \in DOMAIN tool_to_client_map
       /\ tool_to_client_map[call.name] \in mcp_clients
    THEN <<[round |-> n, index |-> i, client |-> tool_to_client_map[call.name],
            tool |-> call.name, outcome |-> outcome]>>
    ELSE <<>>

RECURSIVE round_calls(_, _, _, _)
round_calls(calls, n, outs, i) ==
    IF i > Len(calls) THEN <<>>
    ELSE calls_made(calls[i], n, i, outs[i]) \o round_calls(calls, n, outs, i + 1)

----------------------------------------------------------------------------
\* The LLM backend (llm/types.rs ChatCompletionResponse, first choice only)

LlmToolCall(n, i, name, args) ==
    [id |-> LlmCallId(n, i), name |-> name, arguments |-> args]

ToolCallSeqs(n) ==
    UNION {
      { [i \in 1..k |-> LlmToolCall(n, i, names[i], args[i])] :
            names \in [1..k -> ToolNames], args \in [1..k -> ArgStrings] }
      : k \in 1..MaxToolCalls }

Response(choices, content, tool_calls) ==
    [present |-> TRUE, choices |-> choices, content |-> content,
     tool_calls |-> tool_calls]

\* replies create_chat_completion can give to the n-th call
LlmReplies(n) ==
    {[err |-> TRUE, resp |-> NoResponse]}
    \cup {[err |-> FALSE, resp |-> Response(0, EmptyText, <<>>)]}
    \cup {[err |-> FALSE, resp |-> Response(1, c, <<>>)] :
              c \in {EmptyText, LlmContent(n)}}
    \cup {[err |-> FALSE, resp |-> Response(1, EmptyText, tc)] :
              tc \in ToolCallSeqs(n)}

ReplyKind(reply) ==
    CASE reply.err -> "error"
      [] reply.resp.choices = 0 -> "no_choices"
      [] Len(reply.resp.tool_calls) > 0 -> "tools"
      [] IsEmptyText(reply.resp.content) -> "empty"
      [] OTHER -> "content"

----------------------------------------------------------------------------
\* Initial state: an agent as Agent::new / new_for_testing leaves it, an
\* empty history, no invocation yet.

\* agents the model starts from: route table and advertised catalog
InitialAgents ==
    { [routes |-> [t \in {"tool_A"} |-> "c1"], tools |-> <<"tool_A">>],
      [routes |-> [t \in ToolNames |-> IF t = "tool_A" THEN "c1" ELSE "c2"],
       tools |-> <<"tool_A", "tool_B">>] }

\* what earlier requests left in the store: nothing, or a finished exchange
\* of session s1 with a message of session s2 in between
PriorHistories ==
    { <<>>,
      << Message("s1", "user", UserText("hi")),
         Message("s2", "user", UserText("hi")),
         Message("s1", "assistant", LlmContent(1)) >> }

\* no listing yet
NoListing == [valid |-> FALSE, session_id |-> "", rows |-> <<>>,
              source |-> "", at |-> 0]

\* the detailed store below is not in use; process() goes through `history`
\* no HTTP request is being handled
ServerUnused ==
    /\ agent_lock = 0
    /\ requests = <<>>

\* no stdio connection is in use
StdioUnused ==
    /\ client_type = "none"
    /\ process_lock = 0
    /\ child_alive = FALSE
    /\ child_stdin = <<>>
    /\ child_stdout = <<>>
    /\ callers = <<>>

StorageUnused ==
    /\ db = FALSE
    /\ db_rows = {}
    /\ fallback = <<>>
    /\ save_tasks = <<>>
    /\ save_log = <<>>
    /\ listed = NoListing

\* fsm.rs:52-69 AgentContext::new, fsm.rs:126-141 AgentStateMachine::new
FreshContext(initial_messages) ==
    /\ state' = "ReadyToCallLlm"
    /\ messages' = initial_messages
    /\ current_turn' = 0
    /\ max_turns' = DefaultMaxTurns
    /\ pending_tool_calls' = <<>>
    /\ tool_call_results' = <<>>
    /\ tool_call_id_mapping' = <<>>
    /\ last_error' = NoError
    /\ llm_response' = NoResponse

Init ==
    /\ \E ag \in InitialAgents :
          /\ tool_to_client_map = ag.routes
          /\ available_tools = ag.tools
          /\ mcp_clients = {ag.routes[t] : t \in DOMAIN ag.routes}
    /\ history \in PriorHistories
    /\ state = "ReadyToCallLlm"
    /\ messages = <<>>
    /\ current_turn = 0
    /\ max_turns = DefaultMaxTurns
    /\ pending_tool_calls = <<>>
    /\ tool_call_results = <<>>
    /\ tool_call_id_mapping = <<>>
    /\ last_error = NoError
    /\ llm_response = NoResponse
    /\ llm_args = PlainArgStrings
    /\ pc = "idle"
    /\ loop_iteration = 0
    /\ session_id = "s1"
    /\ result = NoResult
    /\ llm_calls = 0
    /\ llm_log = <<>>
    /\ tool_log = <<>>
    /\ hist_start = 0
    /\ mcp_configs = <<>>
    /\ startup_log = <<>>
    /\ stored_client = <<>>
    /\ event_log = <<>>
    /\ StorageUnused
    /\ ServerUnused
    /\ StdioUnused

----------------------------------------------------------------------------
\* Agent::process (executor.rs:200-273)

CanStart == pc = "idle"

StartObservations ==
    /\ llm_calls' = 0
    /\ llm_log' = <<>>
    /\ tool_log' = <<>>
    /\ hist_start' = Len(history)

\* executor.rs:218-250
\* a transcript that puts the new user message before the loaded history
initial_messages_user_first(previous, input) ==
    <<ChatMessage("system", SystemPromptText, <<>>, NoId)>>
    \o <<ChatMessage("user", UserText(input), <<>>, NoId)>>
    \o [k \in 1..Len(previous) |->
            ChatMessage(previous[k].role, previous[k].content, <<>>, NoId)]

initial_messages(previous, input) ==
    <<ChatMessage("system", SystemPromptText, <<>>, NoId)>>
    \o [k \in 1..Len(previous) |->
            ChatMessage(previous[k].role, previous[k].content, <<>>, NoId)]
    \o <<ChatMessage("user", UserText(input), <<>>, NoId)>>

\* executor.rs:212  history.list(session_id).await?  fails
ProcessListFails(sid, input) ==
    /\ CanStart
    /\ session_id' = sid
    /\ StartObservations
    /\ pc' = "returned"
    /\ result' = Err("Internal", Txt("history_list_failed", "", "", 0, {}))
    /\ loop_iteration' = 0
    /\ FreshContext(<<>>)
    /\ UNCHANGED <<agent_vars, history>>
    /\ UNCHANGED rest_vars

\* executor.rs:254  history.save(user_message).await?  fails
ProcessSaveUserFails(sid, input) ==
    /\ CanStart
    /\ session_id' = sid
    /\ StartObservations
    /\ pc' = "returned"
    /\ result' = Err("Internal", Txt("history_save_failed", "", "", 0, {}))
    /\ loop_iteration' = 0
    /\ FreshContext(initial_messages(list(history, sid), input))
    /\ UNCHANGED <<agent_vars, history>>
    /\ UNCHANGED rest_vars

\* executor.rs:206-266 and 275-288: load history, build the transcript, save
\* the user message, create the FSM and send the initial ProcessInput
ProcessStart(sid, input) ==
    /\ CanStart
    /\ session_id' = sid
    /\ StartObservations
    /\ history' = save(history, Message(sid, "user", UserText(input)))
    /\ LET t == process_event("ReadyToCallLlm", "ProcessInput")
       IN /\ messages' = initial_messages(list(history, sid), input)
          /\ current_turn' = 0
          /\ max_turns' = DefaultMaxTurns
          /\ pending_tool_calls' = <<>>
          /\ tool_call_results' = <<>>
          /\ tool_call_id_mapping' = <<>>
          /\ last_error' = NoError
          /\ llm_response' = NoResponse
          /\ state' = t.state
          /\ IF t.ok
             THEN pc' = "loop" /\ result' = NoResult
             ELSE pc' = "returned"
                  /\ result' = Err("Fsm", Txt("invalid_transition", "", "", 0, {}))
    /\ loop_iteration' = 0
    /\ UNCHANGED agent_vars
    /\ UNCHANGED rest_vars

----------------------------------------------------------------------------
\* Agent::run_fsm_loop (executor.rs:275-567), one action per loop iteration

\* executor.rs:292-306: the loop body runs for this iteration
InLoop(s) ==
    /\ pc = "loop"
    /\ ~is_terminal(state)
    /\ loop_iteration + 1 <= LoopLimit
    /\ state = s

\* fsm.process_event(ev, ..).await?  in the driver
SendEvent(ev) ==
    LET t == process_event(state, ev)
    IN /\ state' = t.state
       /\ IF t.ok
          THEN pc' = "loop" /\ result' = result
          ELSE /\ pc' = "returned"
               /\ result' = Err("Fsm", Txt("invalid_transition", state, ev, 0, {}))

\* executor.rs:374-378  serde_json::from_str(..).unwrap_or_default()
\* an argument map is kept as its set of keys; anything that is not a JSON
\* object parses to the default (empty) map
\* a conversion that keeps text it cannot parse under a key of its own
parse_arguments_keeping(args) ==
    CASE args = "{}" -> {}
      [] args = "{\"x\":1}" -> {"x"}
      [] OTHER -> {"raw"}

parse_arguments(args) ==
    CASE args = "{}" -> {}
      [] args = "{\"x\":1}" -> {"x"}
      [] OTHER -> {}

\* a reading of the response that takes a reply without choices for an empty
\* final answer
HandleResponse_lenient(resp) ==
    /\ llm_response' = resp
    /\ IF resp.choices > 0 /\ Len(resp.tool_calls) > 0
       THEN /\ messages' = Append(messages,
                   ChatMessage("assistant", resp.content, resp.tool_calls, NoId))
            /\ pending_tool_calls' =
                   [i \in 1..Len(resp.tool_calls) |->
                       [name |-> resp.tool_calls[i].name,
                        arguments |-> parse_arguments(resp.tool_calls[i].arguments)]]
            /\ tool_call_id_mapping' =
                   [i \in 1..Len(resp.tool_calls) |-> resp.tool_calls[i].id]
            /\ SendEvent("LlmRequestedTools")
       ELSE /\ messages' =
                   IF ~IsEmptyText(resp.content)
                   THEN Append(messages,
                           ChatMessage("assistant", resp.content, <<>>, NoId))
                   ELSE messages
            /\ UNCHANGED <<pending_tool_calls, tool_call_id_mapping>>
            /\ SendEvent("LlmRespondedWithContent")

\* executor.rs:349-434: interpret the stored LLM response
HandleResponse(resp) ==
    /\ llm_response' = resp
    /\ IF resp.choices > 0
       THEN IF Len(resp.tool_calls) > 0
            THEN /\ messages' = Append(messages,
                        ChatMessage("assistant", resp.content, resp.tool_calls, NoId))
                 /\ pending_tool_calls' =
                        [i \in 1..Len(resp.tool_calls) |->
                            [name |-> resp.tool_calls[i].name,
                             arguments |-> parse_arguments(resp.tool_calls[i].arguments)]]
                 /\ tool_call_id_mapping' =
                        [i \in 1..Len(resp.tool_calls) |-> resp.tool_calls[i].id]
                 /\ SendEvent("LlmRequestedTools")
            ELSE /\ messages' =
                        IF ~IsEmptyText(resp.content)
                        THEN Append(messages,
                                ChatMessage("assistant", resp.content, <<>>, NoId))
                        ELSE messages
                 /\ UNCHANGED <<pending_tool_calls, tool_call_id_mapping>>
                 /\ SendEvent("LlmRespondedWithContent")
       ELSE /\ UNCHANGED <<messages, pending_tool_calls, tool_call_id_mapping>>
            /\ SendEvent("ErrorOccurred")

\* executor.rs:308-435
LoopAwaitingLlmResponse ==
    /\ InLoop("AwaitingLlmResponse")
    /\ loop_iteration' = loop_iteration + 1
    /\ IF ~llm_response.present
       THEN \E reply \in LlmReplies(llm_calls + 1) :
              /\ llm_calls' = llm_calls + 1
              /\ llm_log' = Append(llm_log, ReplyKind(reply))
              /\ IF reply.err
                 THEN /\ SendEvent("ErrorOccurred")
                      /\ UNCHANGED <<messages, pending_tool_calls,
                                     tool_call_id_mapping, llm_response>>
                 ELSE HandleResponse(reply.resp)
       ELSE /\ HandleResponse(llm_response)
            /\ UNCHANGED <<llm_calls, llm_log>>
    /\ UNCHANGED <<agent_vars, history, current_turn, max_turns,
                   tool_call_results, last_error, session_id,
                   tool_log, hist_start>>
    /\ UNCHANGED rest_vars

RoutedLive(call) ==
    /\ call.name \in DOMAIN tool_to_client_map
    /\ tool_to_client_map[call.name] \in mcp_clients

\* executor.rs:436-481 with fsm.rs:215-221
LoopExecutingTools ==
    /\ InLoop("ExecutingTools")
    /\ loop_iteration' = loop_iteration + 1
    /\ LET tool_calls == pending_tool_calls
       IN \E outs \in [1..Len(tool_calls) -> ToolOutcomes] :
            /\ \A i \in 1..Len(tool_calls) :
                    ~RoutedLive(tool_calls[i]) => outs[i] = "text"
            /\ tool_call_results' = tool_call_results \o
                    [i \in 1..Len(tool_calls) |->
                        execute_mcp_tool(tool_calls[i], i, outs[i])]
            /\ tool_log' = tool_log \o round_calls(tool_calls, llm_calls, outs, 1)
    /\ SendEvent("ToolsExecutionCompleted")
    /\ UNCHANGED <<agent_vars, history, messages, current_turn, max_turns,
                   pending_tool_calls, tool_call_id_mapping, last_error,
                   llm_response, session_id, llm_calls, llm_log,
                   hist_start>>
    /\ UNCHANGED rest_vars

\* the mapping is read one position too far
result_id_shifted(mapping, k) ==
    IF k < Len(mapping) THEN mapping[k + 1] ELSE FallbackId(k - 1)

\* executor.rs:499-507: id for the result at 1-based position k
result_id(mapping, k) ==
    IF k <= Len(mapping) THEN mapping[k] ELSE FallbackId(k - 1)

\* the results are dropped instead of being folded into the transcript
tool_messages_dropped(results, mapping, k) == <<>>

\* executor.rs:493-518: the role=tool messages for results k..
RECURSIVE tool_messages(_, _, _)
tool_messages(results, mapping, k) ==
    IF k > Len(results) THEN <<>>
    ELSE (IF Len(results[k].content) > 0 /\ results[k].content[1].type = "text"
          THEN <<ChatMessage("tool", results[k].content[1].text, <<>>,
                             result_id(mapping, k))>>
          ELSE <<>>)
         \o tool_messages(results, mapping, k + 1)

\* executor.rs:482-526
LoopReadyToCallLlm ==
    /\ InLoop("ReadyToCallLlm")
    /\ loop_iteration' = loop_iteration + 1
    /\ llm_response' = NoResponse
    /\ IF Len(tool_call_results) > 0
       THEN /\ messages' = messages \o
                    tool_messages(tool_call_results, tool_call_id_mapping, 1)
            /\ tool_call_results' = <<>>
            /\ tool_call_id_mapping' = <<>>
       ELSE UNCHANGED <<messages, tool_call_results, tool_call_id_mapping>>
    /\ SendEvent("ProcessInput")
    /\ UNCHANGED <<agent_vars, history, current_turn, max_turns,
                   pending_tool_calls, last_error, session_id,
                   obs_vars>>
    /\ UNCHANGED rest_vars

\* executor.rs:292-306: the loop is left, normally or at the ceiling
LoopLeft ==
    /\ pc = "loop"
    /\ is_terminal(state) \/ loop_iteration + 1 > LoopLimit

LeaveCounter ==
    loop_iteration' = IF is_terminal(state) THEN loop_iteration
                      ELSE loop_iteration + 1

\* executor.rs:541-544 then 268-272: Done, the answer is saved and returned
ProcessReturnDone ==
    /\ LoopLeft
    /\ state = "Done"
    /\ LeaveCounter
    /\ LET content == get_final_content(messages)
       IN /\ history' = save(history, Message(session_id, "assistant", content))
          /\ result' = Ok(content)
    /\ pc' = "returned"
    /\ UNCHANGED <<agent_vars, state, ctx_vars, session_id, obs_vars>>
    /\ UNCHANGED rest_vars

\* executor.rs:270  history.save(assistant_message).await?  fails
ProcessReturnDoneSaveFails ==
    /\ LoopLeft
    /\ state = "Done"
    /\ LeaveCounter
    /\ result' = Err("Internal", Txt("history_save_failed", "", "", 0, {}))
    /\ pc' = "returned"
    /\ UNCHANGED <<agent_vars, history, state, ctx_vars, session_id,
                   obs_vars>>
    /\ UNCHANGED rest_vars

\* the error return also stores a synthetic assistant row
ProcessReturnError_saving ==
    /\ LoopLeft
    /\ state = "Error"
    /\ LeaveCounter
    /\ history' = save(history, Message(session_id, "assistant", EmptyText))
    /\ result' = Err("Internal",
                     Txt("error_state_without_specific_error", "", "", 0, {}))
    /\ pc' = "returned"
    /\ UNCHANGED <<agent_vars, state, ctx_vars, session_id, obs_vars>>
    /\ UNCHANGED rest_vars

\* executor.rs:545-554
ProcessReturnError ==
    /\ LoopLeft
    /\ state = "Error"
    /\ LeaveCounter
    /\ result' = IF last_error # NoError
                 THEN Err("Internal", last_error)
                 ELSE Err("Internal",
                          Txt("error_state_without_specific_error", "", "", 0, {}))
    /\ pc' = "returned"
    /\ UNCHANGED <<agent_vars, history, state, ctx_vars, session_id,
                   obs_vars>>
    /\ UNCHANGED rest_vars

\* executor.rs:555-565: the ceiling stopped the loop in a non-terminal state
ProcessReturnUnexpected ==
    /\ LoopLeft
    /\ ~is_terminal(state)
    /\ LeaveCounter
    /\ result' = Err("Internal", Txt("unexpected_state", state, "", 0, {}))
    /\ pc' = "returned"
    /\ UNCHANGED <<agent_vars, history, state, ctx_vars, session_id,
                   obs_vars>>
    /\ UNCHANGED rest_vars

\* executor.rs:709-711
\* a removal that also forgets the routes of the connection
RemoveMcpClient_unrouting(client_name) ==
    /\ pc # "loop"
    /\ mcp_clients' = mcp_clients \ {client_name}
    /\ tool_to_client_map' =
          [t \in {u \in DOMAIN tool_to_client_map :
                     tool_to_client_map[u] # client_name} |->
              tool_to_client_map[t]]
    /\ UNCHANGED <<available_tools, history, state,
                   ctx_vars, pc, loop_iteration, session_id, result,
                   obs_vars>>
    /\ UNCHANGED rest_vars

\* executor.rs:709-711: HashMap::remove, a no-op for a name that is no key
RemoveMcpClient(client_name) ==
    /\ pc # "loop"
    /\ mcp_clients' = mcp_clients \ {client_name}
    /\ UNCHANGED <<tool_to_client_map, available_tools, history, state,
                   ctx_vars, pc, loop_iteration, session_id, result,
                   obs_vars>>
    /\ UNCHANGED rest_vars

----------------------------------------------------------------------------
Next ==
    \/ \E sid \in Sessions, input \in Inputs : ProcessStart(sid, input)
    \/ LoopAwaitingLlmResponse
    \/ LoopExecutingTools
    \/ LoopReadyToCallLlm
    \/ ProcessReturnDone
    \/ ProcessReturnError
    \/ ProcessReturnUnexpected
    \/ \E c \in ClientNames : RemoveMcpClient(c)

Spec == Init /\ [][Next]_vars

\* one step of a running invocation: a driver loop iteration or the return
RunStep ==
    \/ LoopAwaitingLlmResponse
    \/ LoopExecutingTools
    \/ LoopReadyToCallLlm
    \/ ProcessReturnDone
    \/ ProcessReturnError
    \/ ProcessReturnUnexpected

\* The same program when every awaited LLM call and tool call returns: the
\* task running process() is polled again and takes its next step
SpecFair == Init /\ [][Next]_vars /\ WF_vars(RunStep)

\* The same program with an LLM whose tool calls carry a JSON object with
\* a key, text that is not JSON, or JSON that is not an object
InitArgs ==
    /\ tool_to_client_map = [t \in {"tool_A"} |-> "c1"]
    /\ available_tools = <<"tool_A">>
    /\ mcp_clients = {"c1"}
    /\ history = <<>>
    /\ state = "ReadyToCallLlm"
    /\ messages = <<>>
    /\ current_turn = 0
    /\ max_turns = DefaultMaxTurns
    /\ pending_tool_calls = <<>>
    /\ tool_call_results = <<>>
    /\ tool_call_id_mapping = <<>>
    /\ last_error = NoError
    /\ llm_response = NoResponse
    /\ llm_args = MixedArgStrings
    /\ pc = "idle"
    /\ loop_iteration = 0
    /\ session_id = "s1"
    /\ result = NoResult
    /\ llm_calls = 0
    /\ llm_log = <<>>
    /\ tool_log = <<>>
    /\ hist_start = 0
    /\ mcp_configs = <<>>
    /\ startup_log = <<>>
    /\ stored_client = <<>>
    /\ event_log = <<>>
    /\ StorageUnused
    /\ ServerUnused
    /\ StdioUnused

SpecArgs == InitArgs /\ [][Next]_vars

\* The same program with a history store whose calls can fail (a poisoned
\* fallback lock, storage.rs:98-101 and 157-160)
NextHistoryFaults ==
    \/ Next
    \/ \E sid \in Sessions, input \in Inputs : ProcessListFails(sid, input)
    \/ \E sid \in Sessions, input \in Inputs : ProcessSaveUserFails(sid, input)
    \/ ProcessReturnDoneSaveFails

SpecHistoryFaults == Init /\ [][NextHistoryFaults]_vars

----------------------------------------------------------------------------
\* Agent::new (executor.rs:26-100): the start-up loop over the configured
\* tool servers, one action per server

\* configured servers handled by one start-up
MaxServers == 3

\* what a server does during discovery
ServerOutcomes == {"ok", "create_failed", "initialize_failed",
                   "list_tools_failed"}

\* tool lists a server can offer
ServerToolLists == {<<>>, <<"tool_A">>, <<"tool_B">>, <<"tool_A", "tool_B">>}

\* config/mod.rs McpServerConfig, together with the server behind it
McpServerConfig(name, tools, outcome) ==
    [name |-> name, tools |-> tools, outcome |-> outcome]

NameIndex(c) == CASE c = "c1" -> 1 [] c = "c2" -> 2 [] OTHER -> 3

\* name assignments for k configured servers; nothing in the configuration
\* loader keeps two servers from sharing a name.  Names are opaque keys, so
\* of the assignments that differ only by a renaming one is kept: the one
\* that takes up the names in the order c1, c2, c3
ServerNamings(k) ==
    {f \in [1..k -> ClientNames] :
        \A i \in 1..k :
            \A c \in ClientNames :
                NameIndex(c) < NameIndex(f[i]) => \E j \in 1..(i - 1) : f[j] = c}

\* a failed tool listing fails the whole discovery
initialize_mcp_client_strict(config) ==
    [ok |-> config.outcome = "ok", name |-> config.name, tools |-> config.tools]

\* executor.rs:102-198: Err when the connection cannot be created or the
\* handshake fails; a failed tool listing is logged and yields no tools
initialize_mcp_client(config) ==
    CASE config.outcome \in {"create_failed", "initialize_failed"} ->
            [ok |-> FALSE, name |-> config.name, tools |-> <<>>]
      [] config.outcome = "list_tools_failed" ->
            [ok |-> TRUE, name |-> config.name, tools |-> <<>>]
      [] OTHER ->
            [ok |-> TRUE, name |-> config.name, tools |-> config.tools]

Range(seq) == {seq[i] : i \in 1..Len(seq)}

\* an existing route is kept when the name is offered again
insert_routes_first_wins(routes, name, tools) ==
    [t \in DOMAIN routes \cup Range(tools) |->
        IF t \in DOMAIN routes THEN routes[t] ELSE name]

\* executor.rs:42-54: tool_to_client_map.insert(tool_name, name) per tool
insert_routes(routes, name, tools) ==
    [t \in DOMAIN routes \cup Range(tools) |->
        IF t \in Range(tools) THEN name ELSE routes[t]]

\* executor.rs:56-64: available_tools.push(llm_tool) per tool
push_tools(catalog, tools) == catalog \o tools

\* executor.rs:38-78: one iteration of `for config in mcp_configs`
\* executor.rs:71  mcp_clients.insert(name, client): a connection already
\* stored under the name is replaced
insert_client(clients, name, server) ==
    [n \in DOMAIN clients \cup {name} |->
        IF n = name THEN server ELSE clients[n]]

AgentNewConfig ==
    /\ pc = "new"
    /\ Len(mcp_configs) > 0
    /\ LET config == Head(mcp_configs)
           r == initialize_mcp_client(config)
       IN /\ mcp_configs' = Tail(mcp_configs)
          /\ startup_log' = Append(startup_log, config)
          /\ IF r.ok
             THEN /\ tool_to_client_map' =
                        insert_routes(tool_to_client_map, r.name, r.tools)
                  /\ available_tools' = push_tools(available_tools, r.tools)
                  /\ mcp_clients' = mcp_clients \cup {r.name}
                  /\ stored_client' =
                        insert_client(stored_client, r.name, Len(startup_log) + 1)
             ELSE UNCHANGED <<agent_vars, stored_client>>
    /\ UNCHANGED llm_args
    /\ UNCHANGED <<history, state, ctx_vars, pc, loop_iteration, session_id,
                   result, obs_vars, event_log, storage_vars, server_vars,
                   stdio_vars>>

\* executor.rs:80-99: the loop is over, Ok(Self {..}) is returned
AgentNewReturn ==
    /\ pc = "new"
    /\ Len(mcp_configs) = 0
    /\ pc' = "idle"
    /\ UNCHANGED <<agent_vars, history, state, ctx_vars, loop_iteration,
                   session_id, result, obs_vars, startup_vars, event_log,
                   storage_vars, server_vars, stdio_vars>>

InitNew ==
    /\ \E k \in 0..MaxServers :
          \E names \in ServerNamings(k), tools \in [1..k -> ServerToolLists],
             outs \in [1..k -> ServerOutcomes] :
                mcp_configs =
                    [i \in 1..k |-> McpServerConfig(names[i], tools[i], outs[i])]
    /\ startup_log = <<>>
    /\ stored_client = <<>>
    /\ mcp_clients = {}
    /\ tool_to_client_map = <<>>
    /\ available_tools = <<>>
    /\ history = <<>>
    /\ state = "ReadyToCallLlm"
    /\ messages = <<>>
    /\ current_turn = 0
    /\ max_turns = DefaultMaxTurns
    /\ pending_tool_calls = <<>>
    /\ tool_call_results = <<>>
    /\ tool_call_id_mapping = <<>>
    /\ last_error = NoError
    /\ llm_response = NoResponse
    /\ llm_args = PlainArgStrings
    /\ pc = "new"
    /\ loop_iteration = 0
    /\ session_id = "s1"
    /\ result = NoResult
    /\ llm_calls = 0
    /\ llm_log = <<>>
    /\ tool_log = <<>>
    /\ hist_start = 0
    /\ event_log = <<>>
    /\ StorageUnused
    /\ ServerUnused
    /\ StdioUnused

NextNew ==
    \/ AgentNewConfig
    \/ AgentNewReturn

SpecNew == InitNew /\ [][NextNew]_vars

----------------------------------------------------------------------------
\* AgentStateMachine used on its own (fsm.rs:125-213), as its callers and
\* tests may: any event can be sent in any state

\* events sent to one machine
MaxEvents == 4

\* fsm.rs:203-213 on a machine created by AgentStateMachine::new
FsmProcessEvent(e) ==
    /\ Len(event_log) < MaxEvents
    /\ LET t == process_event(state, e)
       IN /\ state' = t.state
          /\ event_log' = Append(event_log,
                                 [event |-> e, from |-> state, ok |-> t.ok])
    /\ UNCHANGED <<agent_vars, history, ctx_vars, pc, loop_iteration,
                   session_id, result, obs_vars, startup_vars, storage_vars,
                   server_vars, stdio_vars>>

\* fsm.rs:126-141 with the transcript process() would hand over
InitFsm ==
    /\ \E ag \in InitialAgents :
          /\ tool_to_client_map = ag.routes
          /\ available_tools = ag.tools
          /\ mcp_clients = {ag.routes[t] : t \in DOMAIN ag.routes}
    /\ history = <<>>
    /\ state = "ReadyToCallLlm"
    /\ \E input \in Inputs : messages = initial_messages(<<>>, input)
    /\ current_turn = 0
    /\ max_turns = DefaultMaxTurns
    /\ pending_tool_calls = <<>>
    /\ tool_call_results = <<>>
    /\ tool_call_id_mapping = <<>>
    /\ last_error = NoError
    /\ llm_response = NoResponse
    /\ llm_args = PlainArgStrings
    /\ pc = "idle"
    /\ loop_iteration = 0
    /\ session_id = "s1"
    /\ result = NoResult
    /\ llm_calls = 0
    /\ llm_log = <<>>
    /\ tool_log = <<>>
    /\ hist_start = 0
    /\ mcp_configs = <<>>
    /\ startup_log = <<>>
    /\ stored_client = <<>>
    /\ event_log = <<>>
    /\ StorageUnused
    /\ ServerUnused
    /\ StdioUnused

NextFsm == \E e \in Events : FsmProcessEvent(e)

SpecFsm == InitFsm /\ [][NextFsm]_vars

----------------------------------------------------------------------------
\* HistoryStorage (storage.rs) in detail: a database that may be absent and
\* whose calls may fail, and the in-memory fallback.  Tasks share the store
\* through an Arc and call save() concurrently; list() is called at any time.

\* save() calls made on one store
MaxSaves == 3

Tasks == 1..MaxSaves

\* content of the message task t saves
SavedText(t) == Txt("saved", "", "", t, {})

\* history/types.rs:5-11 with the id column; NoId is Option::None
StoredMessage(id, m) ==
    [id |-> id, session_id |-> m.session_id, role |-> m.role,
     content |-> m.content]

TaskMessage(t) == Message(save_tasks[t].session, "user", SavedText(t))

\* INTEGER PRIMARY KEY AUTOINCREMENT (storage.rs:49)
NextRowId(rows) ==
    IF rows = {} THEN 1
    ELSE (CHOOSE r \in rows : \A q \in rows : q.id <= r.id).id + 1

\* storage.rs:83-96
save_to_db(rows, m) == rows \cup {StoredMessage(NextRowId(rows), m)}

\* storage.rs:98-105
save_to_fallback(fb, m) == Append(fb, StoredMessage(NoId, m))

\* ORDER BY id ASC
RECURSIVE OrderById(_)
OrderById(rows) ==
    IF rows = {} THEN <<>>
    ELSE LET r == CHOOSE r \in rows : \A q \in rows : r.id <= q.id
         IN <<r>> \o OrderById(rows \ {r})

\* storage.rs:129-154
list_from_db(rows, sid) == OrderById({r \in rows : r.session_id = sid})

\* every stored message is returned, whatever its session
list_from_fallback_unfiltered(fb, sid) == fb

\* storage.rs:156-174
list_from_fallback(fb, sid) == SelectSeq(fb, LAMBDA m : m.session_id = sid)

\* storage.rs:64-81, up to the first storage call that completes: without a
\* database the message goes to the fallback; with one, the insert succeeds
\* and save() returns, or it fails and the fallback is tried next
SaveCall(t) ==
    /\ save_tasks[t].pc = "idle"
    /\ LET alone == \A u \in Tasks : save_tasks[u].pc # "db_failed"
       IN IF db
          THEN \/ /\ db_rows' = save_to_db(db_rows, TaskMessage(t))
                  /\ save_tasks' = [save_tasks EXCEPT ![t].pc = "done",
                                                      ![t].alone = alone]
                  /\ save_log' = Append(save_log, t)
                  /\ UNCHANGED fallback
               \/ /\ save_tasks' = [save_tasks EXCEPT ![t].pc = "db_failed",
                                                      ![t].alone = alone]
                  /\ UNCHANGED <<db_rows, fallback, save_log>>
          ELSE /\ fallback' = save_to_fallback(fallback, TaskMessage(t))
               /\ save_tasks' = [save_tasks EXCEPT ![t].pc = "done",
                                                   ![t].alone = alone]
               /\ save_log' = Append(save_log, t)
               /\ UNCHANGED db_rows
    /\ UNCHANGED <<db, listed, process_vars, startup_vars, event_log,
                   server_vars, stdio_vars>>

\* storage.rs:78-80 after a failed insert
SaveFallback(t) ==
    /\ save_tasks[t].pc = "db_failed"
    /\ fallback' = save_to_fallback(fallback, TaskMessage(t))
    /\ save_tasks' = [save_tasks EXCEPT ![t].pc = "done"]
    /\ save_log' = Append(save_log, t)
    /\ UNCHANGED <<db, db_rows, listed, process_vars, startup_vars, event_log,
                   server_vars, stdio_vars>>

Listing(sid, rows, source) ==
    [valid |-> TRUE, session_id |-> sid, rows |-> rows, source |-> source,
     at |-> Len(save_log)]

\* storage.rs:107-127: the query's result, or the fallback when there is no
\* database or the query fails
List(sid) ==
    /\ IF db
       THEN \/ listed' = Listing(sid, list_from_db(db_rows, sid), "db")
            \/ listed' = Listing(sid, list_from_fallback(fallback, sid),
                                 "fallback")
       ELSE listed' = Listing(sid, list_from_fallback(fallback, sid),
                              "fallback")
    /\ UNCHANGED <<db, db_rows, fallback, save_tasks, save_log,
                   process_vars, startup_vars, event_log, server_vars,
                   stdio_vars>>

\* no agent is involved
AgentUnused ==
    /\ mcp_clients = {}
    /\ tool_to_client_map = <<>>
    /\ available_tools = <<>>
    /\ history = <<>>
    /\ state = "ReadyToCallLlm"
    /\ messages = <<>>
    /\ current_turn = 0
    /\ max_turns = DefaultMaxTurns
    /\ pending_tool_calls = <<>>
    /\ tool_call_results = <<>>
    /\ tool_call_id_mapping = <<>>
    /\ last_error = NoError
    /\ llm_response = NoResponse
    /\ llm_args = PlainArgStrings
    /\ pc = "idle"
    /\ loop_iteration = 0
    /\ session_id = "s1"
    /\ result = NoResult
    /\ llm_calls = 0
    /\ llm_log = <<>>
    /\ tool_log = <<>>
    /\ hist_start = 0
    /\ mcp_configs = <<>>
    /\ startup_log = <<>>
    /\ stored_client = <<>>
    /\ event_log = <<>>

\* storage.rs:14-34: HistoryStorage::new with or without a usable database
InitStorage ==
    /\ AgentUnused
    /\ ServerUnused
    /\ StdioUnused
    /\ db \in BOOLEAN
    /\ db_rows = {}
    /\ fallback = <<>>
    /\ save_tasks \in [Tasks -> {[session |-> sid, pc |-> "idle", alone |-> TRUE] :
                                    sid \in Sessions}]
    /\ save_log = <<>>
    /\ listed = NoListing

NextStorage ==
    \/ \E t \in Tasks : SaveCall(t)
    \/ \E t \in Tasks : SaveFallback(t)
    \/ \E sid \in Sessions : List(sid)

SpecStorage == InitStorage /\ [][NextStorage]_vars

----------------------------------------------------------------------------
\* StdioMcpClient::send_request (mcp/stdio.rs:50-104) called by several tasks
\* on one connection, and the child process at the other end of the pipes

MaxCallers == 3
Callers == 1..MaxCallers

\* what a response line can hold: a result, an error, both, neither, or text
\* that is not JSON
LineKinds == {"result", "error", "both", "neither", "garbage"}

\* stdio.rs:51-56: the request line; its "id" is 1 in every request, `from`
\* names the call that wrote it
RequestLine(c) == [id |-> 1, from |-> c]

\* the line a child writes for a request
ResponseLine(req, kind) == [id |-> 1, for |-> req.from, kind |-> kind]

NoLine == [id |-> 0, for |-> 0, kind |-> "none"]

\* a client that looks for "result" first
parse_response_result_first(line) ==
    IF line.kind = "garbage"
    THEN Err("Mcp", Txt("stdio_parse_failed", "", "", 0, {}))
    ELSE IF line.kind \in {"result", "both"}
    THEN Ok(Txt("stdio_result", "", "", line.for, {}))
    ELSE Err("Mcp", Txt("stdio_error", "", "", 0, {}))

\* stdio.rs:92-103: parse the line, then look for "error", then for "result"
parse_response(line) ==
    IF line.kind = "garbage"
    THEN Err("Mcp", Txt("stdio_parse_failed", "", "", 0, {}))
    ELSE IF line.kind \in {"error", "both"}
    THEN Err("Mcp", Txt("stdio_error", "", "", 0, {}))
    ELSE IF line.kind = "neither"
    THEN Err("Mcp", Txt("stdio_missing_result", "", "", 0, {}))
    ELSE Ok(Txt("stdio_result", "", "", line.for, {}))

Caller(pos, res, line) == [pc |-> pos, result |-> res, got |-> line]

\* a lock taken without waiting for its holder
SendRequestLock_shared(c) ==
    /\ client_type = "stdio"
    /\ callers[c].pc = "idle"
    /\ process_lock' = c
    /\ callers' = [callers EXCEPT ![c].pc = "locked"]
    /\ UNCHANGED <<child_alive, child_stdin, child_stdout>>
    /\ UNCHANGED <<process_vars, startup_vars, event_log, storage_vars,
                   server_vars, client_type>>

\* stdio.rs:58  self.process.lock().await
SendRequestLock(c) ==
    /\ client_type = "stdio"
    /\ callers[c].pc = "idle"
    /\ process_lock = 0
    /\ process_lock' = c
    /\ callers' = [callers EXCEPT ![c].pc = "locked"]
    /\ UNCHANGED <<child_alive, child_stdin, child_stdout>>
    /\ UNCHANGED <<process_vars, startup_vars, event_log, storage_vars,
                   server_vars, client_type>>

\* stdio.rs:73-82: write_all and flush; a failure returns the error, which
\* drops the guard
SendRequestWrite(c) ==
    /\ callers[c].pc = "locked"
    /\ IF child_alive
       THEN /\ child_stdin' = Append(child_stdin, RequestLine(c))
            /\ callers' = [callers EXCEPT ![c].pc = "written"]
            /\ UNCHANGED process_lock
       ELSE /\ callers' = [callers EXCEPT ![c] =
                  Caller("done",
                         Err("Mcp", Txt("stdio_write_failed", "", "", 0, {})),
                         NoLine)]
            /\ process_lock' = 0
            /\ UNCHANGED child_stdin
    /\ UNCHANGED <<child_alive, child_stdout>>
    /\ UNCHANGED <<process_vars, startup_vars, event_log, storage_vars,
                   server_vars, client_type>>

\* stdio.rs:85-103: read one line, parse it and return, which drops the
\* guard; at end of file read_line yields an empty line that does not parse
SendRequestRead(c) ==
    /\ callers[c].pc = "written"
    /\ \/ /\ Len(child_stdout) > 0
          /\ callers' = [callers EXCEPT ![c] =
                Caller("done", parse_response(Head(child_stdout)),
                       Head(child_stdout))]
          /\ child_stdout' = Tail(child_stdout)
       \/ /\ Len(child_stdout) = 0
          /\ ~child_alive
          /\ callers' = [callers EXCEPT ![c] =
                Caller("done",
                       Err("Mcp", Txt("stdio_parse_failed", "", "", 0, {})),
                       NoLine)]
          /\ UNCHANGED child_stdout
    /\ process_lock' = 0
    /\ UNCHANGED <<child_alive, child_stdin>>
    /\ UNCHANGED <<process_vars, startup_vars, event_log, storage_vars,
                   server_vars, client_type>>

\* the child reads the next request line and writes one response line
ChildRespond(kind) ==
    /\ child_alive
    /\ Len(child_stdin) > 0
    /\ child_stdout' = Append(child_stdout,
                              ResponseLine(Head(child_stdin), kind))
    /\ child_stdin' = Tail(child_stdin)
    /\ UNCHANGED <<process_lock, child_alive, callers>>
    /\ UNCHANGED <<process_vars, startup_vars, event_log, storage_vars,
                   server_vars, client_type>>

\* the child exits; what it wrote stays readable
ChildExit ==
    /\ child_alive
    /\ child_alive' = FALSE
    /\ UNCHANGED <<process_lock, child_stdin, child_stdout, callers>>
    /\ UNCHANGED <<process_vars, startup_vars, event_log, storage_vars,
                   server_vars, client_type>>

\* stdio.rs:18-48: StdioMcpClient::new spawned the child
InitStdio ==
    /\ AgentUnused
    /\ StorageUnused
    /\ ServerUnused
    /\ client_type = "stdio"
    /\ process_lock = 0
    /\ child_alive = TRUE
    /\ child_stdin = <<>>
    /\ child_stdout = <<>>
    /\ callers = [c \in Callers |-> Caller("idle", NoResult, NoLine)]

NextStdio ==
    \/ \E c \in Callers : SendRequestLock(c)
    \/ \E c \in Callers : SendRequestWrite(c)
    \/ \E c \in Callers : SendRequestRead(c)
    \/ \E kind \in LineKinds : ChildRespond(kind)
    \/ ChildExit

SpecStdio == InitStdio /\ [][NextStdio]_vars

----------------------------------------------------------------------------
\* SseMcpClient::send_request (mcp/sse.rs:35-68): one HTTP POST per request

\* sse.rs:56-67: parse the body, then look for "error", then for "result"
sse_parse_response(body) ==
    IF body.kind = "garbage"
    THEN Err("Mcp", Txt("sse_parse_failed", "", "", 0, {}))
    ELSE IF body.kind \in {"error", "both"}
    THEN Err("Mcp", Txt("sse_error", "", "", 0, {}))
    ELSE IF body.kind = "neither"
    THEN Err("Mcp", Txt("sse_missing_result", "", "", 0, {}))
    ELSE Ok(Txt("sse_result", "", "", body.for, {}))

\* what the POST of a request can come back with
SseOutcomes == LineKinds \cup {"send_failed"}

\* sse.rs:35-68: the request is posted; either sending fails or the body of
\* the HTTP response is parsed and examined
SseSendRequest(c, outcome) ==
    /\ client_type = "sse"
    /\ callers[c].pc = "idle"
    /\ callers' = [callers EXCEPT ![c] =
          IF outcome = "send_failed"
          THEN Caller("done",
                      Err("Mcp", Txt("sse_send_failed", "", "", 0, {})),
                      NoLine)
          ELSE Caller("done",
                      sse_parse_response(ResponseLine(RequestLine(c), outcome)),
                      ResponseLine(RequestLine(c), outcome))]
    /\ UNCHANGED <<client_type, process_lock, child_alive, child_stdin,
                   child_stdout>>
    /\ UNCHANGED <<process_vars, startup_vars, event_log, storage_vars,
                   server_vars>>

\* a connection of either transport (config/types.rs McpClientType)
InitMcp ==
    /\ AgentUnused
    /\ StorageUnused
    /\ ServerUnused
    /\ client_type \in {"stdio", "sse"}
    /\ process_lock = 0
    /\ child_alive = (client_type = "stdio")
    /\ child_stdin = <<>>
    /\ child_stdout = <<>>
    /\ callers = [c \in Callers |-> Caller("idle", NoResult, NoLine)]

NextMcp ==
    \/ \E c \in Callers : SendRequestLock(c)
    \/ \E c \in Callers : SendRequestWrite(c)
    \/ \E c \in Callers : SendRequestRead(c)
    \/ \E kind \in LineKinds : ChildRespond(kind)
    \/ ChildExit
    \/ \E c \in Callers, outcome \in SseOutcomes : SseSendRequest(c, outcome)

SpecMcp == InitMcp /\ [][NextMcp]_vars

----------------------------------------------------------------------------
\* The HTTP handler `inference` (server/handlers.rs:15-49) serving requests
\* on the AppState built by run (server/mod.rs:19-22)

MaxRequests == 2
Requests == 1..MaxRequests

\* a request that has not arrived, and one the handler is working on
NoRequest == [pc |-> "none", session_id |-> "", result |-> NoResult,
              first_row |-> 0, last_row |-> 0]

\* handlers.rs:15-24: the handler task starts and fixes the session id
HandlerReceive(r, sid) ==
    /\ requests[r].pc = "none"
    /\ requests' = [requests EXCEPT ![r].pc = "waiting",
                                    ![r].session_id = sid]
    /\ UNCHANGED <<agent_lock, process_vars, startup_vars, event_log,
                   storage_vars, stdio_vars>>

\* a handler that does not wait for the agent lock
HandlerLock_shared(r) ==
    /\ requests[r].pc = "waiting"
    /\ agent_lock' = r
    /\ requests' = [requests EXCEPT ![r].pc = "locked"]
    /\ UNCHANGED <<process_vars, startup_vars, event_log, storage_vars,
                   stdio_vars>>

\* handlers.rs:27  let mut agent = state.agent.lock().await
HandlerLock(r) ==
    /\ requests[r].pc = "waiting"
    /\ agent_lock = 0
    /\ agent_lock' = r
    /\ requests' = [requests EXCEPT ![r].pc = "locked"]
    /\ UNCHANGED <<process_vars, startup_vars, event_log, storage_vars,
                   stdio_vars>>

\* handlers.rs:28-30  agent.process(&session_id, &request.input, ..) begins
HandlerProcessStart(r) ==
    /\ agent_lock = r
    /\ requests[r].pc = "locked"
    /\ \E input \in Inputs : ProcessStart(requests[r].session_id, input)

\* handlers.rs:31-49: process() has returned; the response is built, the
\* handler returns and the guard and the invocation's locals are dropped
HandlerRespond(r) ==
    /\ agent_lock = r
    /\ requests[r].pc = "locked"
    /\ pc = "returned"
    /\ requests' = [requests EXCEPT ![r].pc = "responded",
                                    ![r].result = result,
                                    ![r].first_row = hist_start + 1,
                                    ![r].last_row = Len(history)]
    /\ agent_lock' = 0
    /\ pc' = "idle"
    /\ FreshContext(<<>>)
    /\ loop_iteration' = 0
    /\ session_id' = "s1"
    /\ result' = NoResult
    /\ llm_calls' = 0
    /\ llm_log' = <<>>
    /\ tool_log' = <<>>
    /\ hist_start' = 0
    /\ UNCHANGED <<agent_vars, history, startup_vars, event_log, storage_vars,
                   stdio_vars>>

\* mod.rs:13-22: an empty history store and the agent Agent::new returned
InitServer ==
    /\ tool_to_client_map = [t \in {"tool_A"} |-> "c1"]
    /\ available_tools = <<"tool_A">>
    /\ mcp_clients = {"c1"}
    /\ history = <<>>
    /\ state = "ReadyToCallLlm"
    /\ messages = <<>>
    /\ current_turn = 0
    /\ max_turns = DefaultMaxTurns
    /\ pending_tool_calls = <<>>
    /\ tool_call_results = <<>>
    /\ tool_call_id_mapping = <<>>
    /\ last_error = NoError
    /\ llm_response = NoResponse
    /\ llm_args = PlainArgStrings
    /\ pc = "idle"
    /\ loop_iteration = 0
    /\ session_id = "s1"
    /\ result = NoResult
    /\ llm_calls = 0
    /\ llm_log = <<>>
    /\ tool_log = <<>>
    /\ hist_start = 0
    /\ mcp_configs = <<>>
    /\ startup_log = <<>>
    /\ stored_client = <<>>
    /\ event_log = <<>>
    /\ StorageUnused
    /\ StdioUnused
    /\ agent_lock = 0
    /\ requests = [r \in Requests |-> NoRequest]

NextServer ==
    \/ \E r \in Requests, sid \in Sessions : HandlerReceive(r, sid)
    \/ \E r \in Requests : HandlerLock(r)
    \/ \E r \in Requests : HandlerProcessStart(r)
    \/ RunStep
    \/ \E r \in Requests : HandlerRespond(r)

SpecServer == InitServer /\ [][NextServer]_vars

TypeOK ==
    /\ state \in States
    /\ pc \in {"new", "idle", "loop", "returned"}
    /\ loop_iteration \in 0..(LoopLimit + 1)
    /\ llm_calls \in Nat
    /\ mcp_clients \subseteq ClientNames

----------------------------------------------------------------------------
\* Shared vocabulary of the properties

Returned == pc = "returned"

\* the stored rows the invocation found, and the length of its initial
\* transcript (system prompt, loaded rows of the session, the user message)
PriorRows == SubSeq(history, 1, hist_start)
PrefixLen == Len(list(PriorRows, session_id)) + 2

\* rows the invocation added to the store
NewRows == SubSeq(history, hist_start + 1, Len(history))

AllRepliesAre(kind) ==
    /\ Len(llm_log) > 0
    /\ \A i \in 1..Len(llm_log) : llm_log[i] = kind

----------------------------------------------------------------------------
C2_TurnBudgetError ==
    (Returned /\ AllRepliesAre("tools")) =>
        /\ ~result.ok
        /\ result.kind = "MaxTurnsExceeded"
        /\ \A k \in 1..Len(NewRows) : NewRows[k].role # "assistant"

\* C3: When the LLM replies with a tool request on each of its first two
\* calls, a third LLM call is made, and if that call is answered with content
\* the invocation returns that content.
C3_SequentialToolRounds ==
    (/\ Returned
     /\ Len(llm_log) >= 2
     /\ llm_log[1] = "tools"
     /\ llm_log[2] = "tools") =>
        /\ llm_calls >= 3
        /\ llm_log[3] = "content" => result = Ok(LlmContent(3))

\* C4: When the LLM first requests one routed tool, the tool returns a text
\* result and the LLM then replies with content, process() makes exactly two
\* LLM calls, returns the second reply's content, and the transcript after
\* the initial prefix reads: user, assistant with tool_calls, tool result,
\* assistant final.
C4_OneToolRoundCase ==
    /\ Returned
    /\ llm_log = <<"tools", "content">>
    /\ Len(pending_tool_calls) = 1
    /\ Len(tool_log) = 1
    /\ tool_log[1].outcome = "text"

C4_OneToolRound ==
    C4_OneToolRoundCase =>
        /\ llm_calls = 2
        /\ result = Ok(LlmContent(2))
        /\ Len(messages) = PrefixLen + 3
        /\ messages[PrefixLen].role = "user"
        /\ messages[PrefixLen + 1].role = "assistant"
        /\ Len(messages[PrefixLen + 1].tool_calls) = 1
        /\ messages[PrefixLen + 1].tool_calls[1].name = tool_log[1].tool
        /\ messages[PrefixLen + 2] =
                ChatMessage("tool", ToolText(tool_log[1].tool, 1), <<>>,
                            messages[PrefixLen + 1].tool_calls[1].id)
        /\ messages[PrefixLen + 3] =
                ChatMessage("assistant", LlmContent(2), <<>>, NoId)

\* C4 witness: the scenario has run to its end, with stored rows before it
C4_Witness == C4_OneToolRoundCase /\ hist_start > 0

\* C5: When the LLM's first reply is plain non-empty content with no tool
\* calls, process() makes exactly one LLM call, returns that content, and
\* adds exactly two rows to the session's history: the user input followed
\* by the assistant reply.
C5_DirectReply ==
    (Returned /\ llm_log = <<"content">>) =>
        /\ llm_calls = 1
        /\ result = Ok(LlmContent(1))
        /\ NewRows = << Message(session_id, "user", messages[PrefixLen].content),
                        Message(session_id, "assistant", LlmContent(1)) >>
        /\ messages[PrefixLen].role = "user"

\* C5 witness: a direct reply was returned for a session that had rows
C5_Witness ==
    /\ Returned
    /\ llm_log = <<"content">>
    /\ Len(list(PriorRows, session_id)) > 0

\* position of the latest assistant message with tool calls before k (0: none)
RECURSIVE RequestBefore(_)
RequestBefore(k) ==
    IF k <= 1 THEN 0
    ELSE IF /\ messages[k - 1].role = "assistant"
            /\ Len(messages[k - 1].tool_calls) > 0
         THEN k - 1
         ELSE RequestBefore(k - 1)

\* the text is what executing call i of a round produced
ResultOfCall(text, call, i) ==
    CASE text.kind = "tool_text" -> text.a = call.name /\ text.n = i
      [] text.kind = "tool_execution_failed" -> text.n = i
      [] text.kind = "client_unavailable" -> text.a = call.name
      [] text.kind = "no_client_mapping" -> text.a = call.name
      [] OTHER -> FALSE

\* C6: Every role=tool message of the transcript carries the id of a tool
\* call of an earlier assistant message, and the pairing is positional: the
\* message holding the result of the i-th call of the round carries the i-th
\* call's id.
C6_ToolCallIdCorrelation ==
    \A k \in 1..Len(messages) :
        messages[k].role = "tool" =>
            LET j == RequestBefore(k)
            IN /\ j > 0
               /\ \E i \in 1..Len(messages[j].tool_calls) :
                    /\ messages[k].tool_call_id = messages[j].tool_calls[i].id
                    /\ ResultOfCall(messages[k].content,
                                    messages[j].tool_calls[i], i)

\* C6 witness: a round of two calls whose first result had no text and whose
\* second result was folded into the transcript under the second call's id
C6_Witness ==
    /\ Len(messages) > 1
    /\ messages[Len(messages)].role = "tool"
    /\ messages[Len(messages) - 1].role = "assistant"
    /\ Len(messages[Len(messages) - 1].tool_calls) = 2
    /\ messages[Len(messages)].tool_call_id =
            messages[Len(messages) - 1].tool_calls[2].id

\* the reply number of the latest tool request (0: none)
RECURSIVE LastToolsReply(_)
LastToolsReply(n) ==
    IF n = 0 THEN 0
    ELSE IF llm_log[n] = "tools" THEN n ELSE LastToolsReply(n - 1)

HasMessage(m) == \E k \in 1..Len(messages) : messages[k] = m

\* C7: Executing a tool name that has no route yields an error text that
\* names the tool and lists the routed tool names; the text is fed back as a
\* tool message under the call's id and the LLM is called again, so a
\* finished invocation never ends on the round that held the unrouted call.
C7_UnroutedToolRecovered ==
    Returned =>
        \A i \in 1..Len(pending_tool_calls) :
            pending_tool_calls[i].name \notin DOMAIN tool_to_client_map =>
                LET r == LastToolsReply(Len(llm_log))
                IN /\ Len(llm_log) > r
                   /\ HasMessage(ChatMessage("tool",
                            Txt("no_client_mapping", pending_tool_calls[i].name,
                                "", 0, DOMAIN tool_to_client_map),
                            <<>>, LlmCallId(r, i)))

\* C8: When a routed connection's call_tool fails, the failure is fed back
\* as an error text under the call's id, the LLM is called again, and a
\* content reply to that next call is what process() returns.
C8_ToolFailureRecovered ==
    Returned =>
        \A k \in 1..Len(tool_log) :
            tool_log[k].outcome = "fail" =>
                /\ Len(llm_log) > tool_log[k].round
                /\ HasMessage(ChatMessage("tool",
                        Txt("tool_execution_failed", "", "", tool_log[k].index, {}),
                        <<>>, LlmCallId(tool_log[k].round, tool_log[k].index)))
                /\ llm_log[tool_log[k].round + 1] = "content" =>
                        result = Ok(LlmContent(tool_log[k].round + 1))

\* the route of the call points to a connection that is not live
Dangling(call) ==
    /\ call.name \in DOMAIN tool_to_client_map
    /\ tool_to_client_map[call.name] \notin mcp_clients

\* C9: While an invocation runs, the result of a tool call whose route
\* points to a connection that is not live is an is_error text naming the
\* missing connection and the tool, no connection was called for it, and
\* every call that was made went to the live connection the route names.
C9_MissingClient ==
    pc = "loop" =>
        /\ \A i \in 1..Len(tool_call_results) :
              Dangling(pending_tool_calls[i]) =>
                /\ tool_call_results[i] =
                      McpResponse(
                        <<McpText(Txt("client_unavailable",
                                      pending_tool_calls[i].name,
                                      tool_to_client_map[pending_tool_calls[i].name],
                                      0, {}))>>, TRUE)
                /\ \A k \in 1..Len(tool_log) :
                      ~(tool_log[k].round = llm_calls /\ tool_log[k].index = i)
        /\ \A k \in 1..Len(tool_log) :
              /\ tool_log[k].tool \in DOMAIN tool_to_client_map
              /\ tool_log[k].client = tool_to_client_map[tool_log[k].tool]
              /\ tool_log[k].client \in mcp_clients

\* C9 witness: a round was executed that held a call with a dangling route
\* next to a call that reached its connection
C9_Witness ==
    /\ pc = "loop"
    /\ Len(tool_call_results) = 2
    /\ Dangling(pending_tool_calls[1])
    /\ Len(tool_log) > 0
    /\ tool_log[Len(tool_log)].round = llm_calls

LlmFailed == Len(llm_log) > 0 /\ llm_log[Len(llm_log)] = "error"

\* C10: If an LLM call fails, the FSM is in Error, the loop can only be left
\* through the error return, the caller receives an error, and from then on
\* no LLM call and no tool call is made in the invocation.
C10_LlmFailureEndsInvocation ==
    /\ [](LlmFailed =>
            /\ state = "Error"
            /\ pc = "loop" => ENABLED ProcessReturnError
            /\ Returned => ~result.ok)
    /\ [][LlmFailed =>
            /\ llm_calls' = llm_calls
            /\ llm_log' = llm_log
            /\ tool_log' = tool_log
            /\ state' = "Error"]_vars

\* C10 witness: the second LLM call of an invocation failed, after a tool
\* round, and the invocation returned
C10_Witness ==
    /\ Returned
    /\ LlmFailed
    /\ Len(llm_log) = 2
    /\ Len(tool_log) > 0

\* the invocation got past saving the user message: the driver loop ran, and
\* its first iteration always calls the LLM
UserMessageSaved == llm_calls > 0

\* C11: A finished process() has saved an assistant row if and only if it
\* returned successfully, and then the rows it added are the user message
\* followed by an assistant row holding the returned text; on every failure
\* after the user message was saved the only row it added is the user
\* message.  Checked with a history store whose calls can fail.
C11_AssistantSavedIffSuccess ==
    Returned =>
        /\ result.ok <=>
              (\E k \in 1..Len(NewRows) : NewRows[k].role = "assistant")
        /\ result.ok =>
              NewRows = << Message(session_id, "user", UserText("hi")),
                           Message(session_id, "assistant", result.text) >>
        /\ (~result.ok /\ UserMessageSaved) =>
              NewRows = << Message(session_id, "user", UserText("hi")) >>
        /\ PriorRows \in PriorHistories

\* C11 witness: the FSM reached Done but saving the assistant row failed, so
\* the invocation returned an error after the user message was saved
C11_Witness ==
    /\ Returned
    /\ state = "Done"
    /\ ~result.ok
    /\ UserMessageSaved
    /\ hist_start > 0

\* the k-th configured server came up and offered tool t
Offers(k, t) ==
    /\ startup_log[k].outcome = "ok"
    /\ t \in Range(startup_log[k].tools)

Offerers(t) == {k \in 1..Len(startup_log) : Offers(k, t)}

LastOfferer(t) == CHOOSE k \in Offerers(t) : \A j \in Offerers(t) : j <= k

\* C12: When two connections register a tool with the same name during
\* construction, the route table holds one route for that name and it points
\* at the connection registered last.
C12_LastRegistrationWins ==
    \A t \in ToolNames :
        Cardinality(Offerers(t)) >= 2 =>
            /\ t \in DOMAIN tool_to_client_map
            /\ tool_to_client_map[t] = startup_log[LastOfferer(t)].name

\* C12 witness: construction finished after two servers offered tool_A
C12_Witness ==
    /\ pc = "idle"
    /\ Cardinality(Offerers("tool_A")) = 2
    /\ Cardinality(Offerers("tool_B")) = 1

\* C13: After construction the tool names of the advertised catalog are
\* pairwise distinct, and the catalog has as many entries as the route table.
C13_CatalogNamesDistinct ==
    pc = "idle" =>
        /\ \A a, b \in 1..Len(available_tools) :
              a # b => available_tools[a] # available_tools[b]
        /\ Len(available_tools) = Cardinality(DOMAIN tool_to_client_map)

\* servers of the start-up whose discovery succeeded at every step
UpServers ==
    {startup_log[k].name : k \in {j \in 1..Len(startup_log) :
                                     startup_log[j].outcome = "ok"}}
OfferedTools == {t \in ToolNames : Offerers(t) # {}}

ConnectedServers ==
    {startup_log[k].name : k \in {j \in 1..Len(startup_log) :
            startup_log[j].outcome \in {"ok", "list_tools_failed"}}}

RECURSIVE ReplayAccepted(_)
ReplayAccepted(k) ==
    IF k = 0 THEN "ReadyToCallLlm"
    ELSE IF event_log[k].ok
         THEN transition(ReplayAccepted(k - 1), event_log[k].event).state
         ELSE ReplayAccepted(k - 1)

\* the step sent an event that was refused with an invalid-transition error
RejectedStep ==
    /\ Len(event_log') = Len(event_log) + 1
    /\ ~event_log'[Len(event_log')].ok

\* C15: An event that the FSM refuses in its current state leaves the state
\* and the whole context unchanged, and the machine goes on as if the event
\* had never been sent: its state is always the state that the accepted
\* events alone lead to.
C15_InvalidEventIgnored ==
    /\ [][RejectedStep => (state' = state /\ ctx_vars' = ctx_vars)]_vars
    /\ [](state = ReplayAccepted(Len(event_log)))

\* C15 witness: a refused event, then an accepted one, then a refused one
C15_Witness ==
    /\ Len(event_log) = 3
    /\ ~event_log[1].ok
    /\ event_log[2].ok
    /\ ~event_log[3].ok
    /\ state = "AwaitingLlmResponse"

Plain(r) == Message(r.session_id, r.role, r.content)

\* messages of session sid whose save() had returned Ok when the latest
\* list() ran, in the order the calls returned
SavedBefore(n, sid) ==
    LET log == SelectSeq(SubSeq(save_log, 1, n),
                         LAMBDA t : save_tasks[t].session = sid)
    IN [k \in 1..Len(log) |-> TaskMessage(log[k])]

\* the step is part of a save() of a message of another session than sid
SaveOfOtherSession(sid) ==
    \E t \in Tasks :
        /\ save_tasks'[t] # save_tasks[t]
        /\ save_tasks[t].session # sid

\* C17: list(s) returns only messages whose session is s, and a save of a
\* message of another session changes neither the database rows nor the
\* fallback rows that list(s) returns.
C17_SessionsIsolated ==
    /\ [](listed.valid =>
            \A k \in 1..Len(listed.rows) :
                listed.rows[k].session_id = listed.session_id)
    /\ [][\A sid \in Sessions :
            SaveOfOtherSession(sid) =>
                /\ list_from_db(db_rows', sid) = list_from_db(db_rows, sid)
                /\ list_from_fallback(fallback', sid) =
                        list_from_fallback(fallback, sid)]_vars

\* C17 witness: a listing of one session returned rows from a store that by
\* then also held a later message of the other session
C17_Witness ==
    /\ listed.valid
    /\ listed.at = 3
    /\ Len(listed.rows) = 2
    /\ save_tasks[save_log[3]].session # listed.session_id

\* no save() call started while another one was in flight
SequentialSaves == \A t \in Tasks : save_tasks[t].alone

ListedMessages == [k \in 1..Len(listed.rows) |-> Plain(listed.rows[k])]

\* C18: After sequential saves, list() of a session returns the messages
\* saved for it, in the order in which their save() calls returned.
C18_InsertionOrder ==
    (listed.valid /\ SequentialSaves) =>
        ListedMessages = SavedBefore(listed.at, listed.session_id)

\* C19: When every task's save() has returned Ok, a list() made after that
\* returns exactly one message per save of the listed session: none is
\* lost and none is duplicated, with or without a database.
C19_ConcurrentSavesAllListed ==
    (listed.valid /\ listed.at = MaxSaves) =>
        /\ Len(listed.rows) =
              Cardinality({t \in Tasks : save_tasks[t].session = listed.session_id})
        /\ \A t \in Tasks :
              save_tasks[t].session = listed.session_id =>
                  \E k \in 1..Len(listed.rows) :
                      Plain(listed.rows[k]) = TaskMessage(t)

\* a tool round is over and the driver is about to make the next LLM call
BeforeNextLlmCall ==
    /\ pc = "loop"
    /\ state = "AwaitingLlmResponse"
    /\ ~llm_response.present
    /\ llm_calls >= 1

\* C20: After a tool round and before the next LLM call, the transcript ends
\* with the assistant message that requested the tools followed by exactly
\* one role=tool message per requested call, in the order of the calls,
\* whatever content the tool results carried.
C20_OneToolMessagePerCall ==
    BeforeNextLlmCall =>
        LET j == RequestBefore(Len(messages) + 1)
        IN /\ j > 0
           /\ Len(messages) = j + Len(messages[j].tool_calls)
           /\ \A i \in 1..Len(messages[j].tool_calls) :
                 /\ j + i <= Len(messages)
                 /\ messages[j + i].role = "tool"
                 /\ messages[j + i].tool_call_id = messages[j].tool_calls[i].id

\* C21: The FSM is in Done only when the last message of the transcript is
\* the assistant message holding the non-empty content of the latest LLM
\* reply, the text process() returns is that content, and a reply with
\* neither tool calls nor content does not end in a successful result.
C21_DoneHasFinalContent ==
    /\ state = "Done" =>
          /\ Len(messages) > 0
          /\ messages[Len(messages)] =
                ChatMessage("assistant", LlmContent(llm_calls), <<>>, NoId)
    /\ (Returned /\ result.ok) => result.text = LlmContent(llm_calls)
    /\ (Returned /\ Len(llm_log) > 0 /\ llm_log[Len(llm_log)] = "empty") =>
          ~result.ok

\* C22: At every point of a process() invocation current_turn equals the
\* number of LLM calls made so far.
C22_TurnCountsLlmCalls ==
    pc \in {"loop", "returned"} => current_turn = llm_calls

\* C28: When the results of a tool round have been folded into the
\* transcript and the next LLM call is about to be made, pending_tool_calls,
\* tool_call_results and tool_call_id_mapping are all empty.
C28_BuffersCleared ==
    BeforeNextLlmCall =>
        /\ pending_tool_calls = <<>>
        /\ tool_call_results = <<>>
        /\ tool_call_id_mapping = <<>>

\* the state the machine was in after the k-th event of the log
StateAfter(k) ==
    IF k < Len(event_log) THEN event_log[k + 1].from ELSE state

\* the state changes the claim lists
ListedEdges ==
    { <<"ReadyToCallLlm", "AwaitingLlmResponse">>,
      <<"AwaitingLlmResponse", "Done">>,
      <<"AwaitingLlmResponse", "ExecutingTools">>,
      <<"AwaitingLlmResponse", "Error">>,
      <<"ExecutingTools", "ReadyToCallLlm">>,
      <<"ExecutingTools", "Error">> }

\* every state change of the log is one of the given edges
ChangesWithin(edges) ==
    /\ Len(event_log) = 0 => state = "ReadyToCallLlm"
    /\ Len(event_log) > 0 => event_log[1].from = "ReadyToCallLlm"
    /\ \A k \in 1..Len(event_log) :
          event_log[k].from # StateAfter(k) =>
              <<event_log[k].from, StateAfter(k)>> \in edges

\* C23 as stated: the FSM starts in ReadyToCallLlm and its only state
\* changes are ReadyToCallLlm -> AwaitingLlmResponse, AwaitingLlmResponse ->
\* Done | ExecutingTools | Error and ExecutingTools -> ReadyToCallLlm | Error.
C23_StateGraph == ChangesWithin(ListedEdges)

\* C23 amended: the FSM starts in ReadyToCallLlm and its only state changes
\* are the listed ones and ReadyToCallLlm -> Error (on ErrorOccurred); no
\* other pair of states is connected by any event.
C23_StateGraphWithReadyError ==
    ChangesWithin(ListedEdges \cup {<<"ReadyToCallLlm", "Error">>})

\* C23 witness: a machine went through a tool round back to ReadyToCallLlm
\* and from there to Error
C23_Witness ==
    /\ Len(event_log) = 4
    /\ event_log[3].from = "ExecutingTools"
    /\ event_log[4].from = "ReadyToCallLlm"
    /\ state = "Error"

\* C24: ErrorOccurred is accepted in ReadyToCallLlm, AwaitingLlmResponse and
\* ExecutingTools and moves the FSM to Error, where is_terminal() is true.
C24_ErrorOccurredAccepted ==
    /\ \A k \in 1..Len(event_log) :
          (/\ event_log[k].event = "ErrorOccurred"
           /\ event_log[k].from \in {"ReadyToCallLlm", "AwaitingLlmResponse",
                                     "ExecutingTools"}) =>
              /\ event_log[k].ok
              /\ StateAfter(k) = "Error"
    /\ is_terminal("Error")

\* C24 witness: ErrorOccurred was sent to a machine in ExecutingTools
C24_Witness ==
    /\ Len(event_log) = 3
    /\ event_log[3].from = "ExecutingTools"
    /\ event_log[3].event = "ErrorOccurred"
    /\ state = "Error"

\* C25: Once the FSM is in Done or Error every event is rejected and the
\* state does not change; is_terminal() is true in exactly these two states.
C25_TerminalAbsorbing ==
    /\ \A k \in 1..Len(event_log) :
          event_log[k].from \in {"Done", "Error"} =>
              /\ ~event_log[k].ok
              /\ StateAfter(k) = event_log[k].from
    /\ \A st \in States : is_terminal(st) <=> st \in {"Done", "Error"}

\* C25 witness: events were sent to a machine that had reached Done
C25_Witness ==
    /\ Len(event_log) = 4
    /\ event_log[3].from = "Done"
    /\ event_log[4].from = "Done"
    /\ state = "Done"

\* the session's stored history holds the user message of this invocation
UserRowPresent ==
    /\ Len(NewRows) >= 1
    /\ NewRows[1] = Message(session_id, "user", UserText("hi"))
    /\ \E k \in 1..Len(list(history, session_id)) :
          /\ k > Len(list(PriorRows, session_id))
          /\ list(history, session_id)[k] =
                Message(session_id, "user", UserText("hi"))

\* C26: In every process() invocation the user message is saved before the
\* first LLM call and stays in the session's history even when the invocation
\* later fails; when loading the history fails, nothing is saved and no LLM
\* call is made.
C26_UserSavedBeforeLlm ==
    /\ [][llm_calls' > llm_calls => UserRowPresent]_vars
    /\ [](llm_calls > 0 => UserRowPresent)
    /\ []((Returned /\ ~result.ok /\ result.text.kind = "history_list_failed")
            => (NewRows = <<>> /\ llm_calls = 0))
    /\ []((Returned /\ llm_calls = 0) => ~result.ok)

\* C26 witness: the LLM was called and the invocation then failed in the
\* Error state, with prior rows of the session already stored
C26_Witness ==
    /\ Returned
    /\ state = "Error"
    /\ ~result.ok
    /\ llm_calls > 0
    /\ Len(list(PriorRows, session_id)) > 0

\* C26 witness of the other case is the state after a failed history load
C26_ListFailedCase ==
    /\ Returned
    /\ result.text.kind = "history_list_failed"

InFlight == {c \in Callers : callers[c].pc \in {"locked", "written"}}

\* C30: On a stdio connection requests are serialized: from the moment a
\* request line is written until its response line has been read no other
\* request writes or reads, so under concurrent callers each caller receives
\* the response line produced for its own request.
C30_StdioSerialized ==
    /\ Cardinality(InFlight) <= 1
    /\ \A c \in InFlight : process_lock = c
    /\ \A c \in Callers : callers[c].pc = "written" =>
          /\ Len(child_stdin) + Len(child_stdout) <= 1
          /\ \A i \in 1..Len(child_stdin) : child_stdin[i].from = c
          /\ \A i \in 1..Len(child_stdout) : child_stdout[i].for = c
    /\ InFlight = {} => (child_stdin = <<>> \/ ~child_alive)
    /\ \A c \in Callers :
          (callers[c].pc = "done" /\ callers[c].got # NoLine) =>
              callers[c].got.for = c
    /\ \A c \in Callers :
          (callers[c].pc = "done" /\ callers[c].result.ok) =>
              callers[c].got = ResponseLine(RequestLine(c), "result")

\* C30 witness: three concurrent callers have each read a line, and two of
\* them got a result
C30_Witness ==
    /\ \A c \in Callers : callers[c].pc = "done" /\ callers[c].got # NoLine
    /\ Cardinality({c \in Callers : callers[c].result.ok}) >= 2

\* C29: Several process() invocations, for different sessions or the same
\* one, can be in progress at the same time as independent tasks: a request
\* that has arrived can begin its process(), and with it its LLM and tool
\* calls, while another request's process() has not yet returned.
C29_ConcurrentInvocations ==
    \A r \in Requests :
        requests[r].pc = "waiting" => ENABLED HandlerLock(r)

\* what the handler does instead: one request at a time inside process()
OneInvocationAtATime ==
    /\ \A r \in Requests :
          requests[r].pc = "locked" <=> agent_lock = r
    /\ (pc # "idle") => agent_lock # 0

\* C31: In both the stdio and the HTTP/SSE client a JSON-RPC response that
\* contains an error field (even next to a result) or that lacks a result
\* field makes the request return an error; a value is returned only when
\* result is present and error is absent.
C31_ErrorFieldWins ==
    \A c \in Callers :
        (callers[c].pc = "done" /\ callers[c].got # NoLine) =>
            /\ callers[c].got.kind \in {"error", "both", "neither"} =>
                  ~callers[c].result.ok
            /\ callers[c].result.ok => callers[c].got.kind = "result"
            /\ callers[c].got.kind = "result" => callers[c].result.ok

\* C31 witness: an HTTP/SSE caller got a body holding both fields and
\* returned an error
C31_Witness ==
    \E c \in Callers :
        /\ callers[c].pc = "done"
        /\ callers[c].got.kind = "both"
        /\ ~callers[c].result.ok
        /\ client_type = "sse"

\* the same case on a stdio connection
C31_StdioCase ==
    \E c \in Callers :
        /\ callers[c].pc = "done"
        /\ callers[c].got.kind = "both"
        /\ ~callers[c].result.ok
        /\ client_type = "stdio"

\* C32: Every message whose save() returned Ok appears in every later list()
\* of its session, whether it went to the database or to the in-memory
\* fallback; a message stored in the fallback after a failed database write
\* is still returned when database reads succeed.
C32_SavedMessagesListed ==
    listed.valid =>
        \A n \in 1..listed.at :
            save_tasks[save_log[n]].session = listed.session_id =>
                \E k \in 1..Len(listed.rows) :
                    Plain(listed.rows[k]) = TaskMessage(save_log[n])

\* C33: remove_mcp_client(c) changes only the set of live connections: it
\* removes at most the connection named c and leaves the route table and the
\* tool catalog unchanged (an unknown name changes nothing), so routes are
\* never altered after agent construction.
C33_RemovalKeepsRoutes ==
    [][/\ tool_to_client_map' = tool_to_client_map
       /\ available_tools' = available_tools
       /\ mcp_clients' \subseteq mcp_clients
       /\ Cardinality(mcp_clients \ mcp_clients') <= 1]_vars

\* C33 witness: every connection was removed before any invocation, and the
\* routes and the catalog still name both tools
C33_Witness ==
    /\ pc = "idle"
    /\ mcp_clients = {}
    /\ DOMAIN tool_to_client_map = ToolNames
    /\ Len(available_tools) = 2

\* C34: Under run_fsm_loop every event the driver sends is accepted by the
\* FSM in its current state: whatever the LLM and the tools answer, no
\* process_event call of the driver returns an invalid-transition error.
C34_DriverEventsAccepted ==
    /\ result.kind # "Fsm"
    /\ Returned => is_terminal(state) \/ loop_iteration = LoopLimit + 1

\* C34 witness: an invocation sent ProcessInput, LlmRequestedTools,
\* ToolsExecutionCompleted, ProcessInput and LlmRespondedWithContent and
\* succeeded
C34_Witness ==
    /\ Returned
    /\ result.ok
    /\ llm_log = <<"tools", "content">>
    /\ Len(tool_log) = MaxToolCalls

\* the transcript starts with the system prompt, the session's stored rows in
\* order and the new user message
InitialMessagesInPlace ==
    LET prior == list(PriorRows, session_id)
    IN /\ Len(messages) >= Len(prior) + 2
       /\ messages[1] = ChatMessage("system", SystemPromptText, <<>>, NoId)
       /\ \A k \in 1..Len(prior) :
             messages[k + 1] =
                 ChatMessage(prior[k].role, prior[k].content, <<>>, NoId)
       /\ messages[Len(prior) + 2] =
             ChatMessage("user", UserText("hi"), <<>>, NoId)

\* C35: Within one process() invocation the transcript is append-only: what
\* is sent in each LLM call extends, as a prefix, what was sent in the call
\* before, and the initial messages (system prompt, loaded history, new user
\* message) keep their positions and content.
C35_TranscriptAppendOnly ==
    /\ [][pc = "loop" =>
            /\ Len(messages') >= Len(messages)
            /\ SubSeq(messages', 1, Len(messages)) = messages]_vars
    /\ [](pc \in {"loop", "returned"} => InitialMessagesInPlace)

\* C35 witness: the second LLM call of an invocation that loaded two stored
\* rows was made with a transcript grown by a tool round
C35_Witness ==
    /\ pc = "loop"
    /\ llm_calls = 2
    /\ Len(list(PriorRows, session_id)) = 2
    /\ Len(messages) >= PrefixLen + 2

RequestRows(r) == SubSeq(history, requests[r].first_row, requests[r].last_row)

\* C37: Through the HTTP handler at most one process() invocation is in
\* flight at any time, so in any session's history the assistant entry of a
\* successful request immediately follows that request's user entry, with no
\* entry of another request in between.
C37_HandlerSerializes ==
    /\ OneInvocationAtATime
    /\ Cardinality({r \in Requests : requests[r].pc = "locked"}) <= 1
    /\ pc # "idle" =>
          \A k \in (hist_start + 1)..Len(history) :
              history[k].session_id = session_id
    /\ \A r \in Requests :
          requests[r].pc = "responded" =>
              IF requests[r].result.ok
              THEN RequestRows(r) =
                      << Message(requests[r].session_id, "user", UserText("hi")),
                         Message(requests[r].session_id, "assistant",
                                 requests[r].result.text) >>
              ELSE RequestRows(r) =
                      << Message(requests[r].session_id, "user", UserText("hi")) >>
    /\ \A r, q \in Requests :
          (r # q /\ requests[r].pc = "responded"
                 /\ requests[q].pc = "responded") =>
              \/ requests[r].last_row < requests[q].first_row
              \/ requests[q].last_row < requests[r].first_row

\* C37 witness: two requests of the same session both succeeded, the second
\* after a tool round
C37_Witness ==
    /\ \A r \in Requests :
          /\ requests[r].pc = "responded"
          /\ requests[r].result.ok
          /\ requests[r].session_id = "s2"
    /\ Len(history) = 4
    /\ history[2].content # history[4].content

\* C38: After Agent::new every route name -> c points to a key c of the
\* live-connection map, and the connection stored under c is the one whose
\* tool listing returned that name, also when two configured servers share
\* a name.
C38_RoutesReachTheirServer ==
    pc = "idle" =>
        \A t \in DOMAIN tool_to_client_map :
            /\ tool_to_client_map[t] \in mcp_clients
            /\ tool_to_client_map[t] \in DOMAIN stored_client
            /\ stored_client[tool_to_client_map[t]] \in Offerers(t)

\* the same statement for configurations whose server names are distinct
DistinctNamesRoutesReachTheirServer ==
    (\A a, b \in 1..Len(startup_log) :
        a # b => startup_log[a].name # startup_log[b].name) =>
            C38_RoutesReachTheirServer

\* the LLM's latest reply requested tools and their round is not folded yet
ToolRoundOpen ==
    /\ pc \in {"loop", "returned"}
    /\ llm_response.present
    /\ Len(llm_response.tool_calls) > 0
    /\ state \in {"ExecutingTools", "ReadyToCallLlm"}

\* C39: A tool call whose arguments string is not a valid JSON object is
\* still executed, with an empty argument map: the turn is not aborted, and
\* its tool call id is recorded at the position of the call, so later results
\* stay correlated.
C39_BadArgumentsStillRun ==
    /\ (Len(llm_log) > 0 /\ llm_log[Len(llm_log)] = "tools") =>
          /\ ~is_terminal(state)
          /\ state = "ExecutingTools" => ToolRoundOpen
          /\ Returned => result.text.kind = "unexpected_state"
    /\ ToolRoundOpen =>
          /\ Len(pending_tool_calls) = Len(llm_response.tool_calls)
          /\ Len(tool_call_id_mapping) = Len(llm_response.tool_calls)
          /\ \A i \in 1..Len(llm_response.tool_calls) :
                /\ pending_tool_calls[i].name = llm_response.tool_calls[i].name
                /\ tool_call_id_mapping[i] = llm_response.tool_calls[i].id
                /\ llm_response.tool_calls[i].arguments \in {"not json", "[1]"} =>
                      pending_tool_calls[i].arguments = {}
          /\ state = "ReadyToCallLlm" =>
                Len(tool_call_results) = Len(pending_tool_calls)
          /\ (state = "ReadyToCallLlm" /\ pc = "loop") =>
                Len(SelectSeq(tool_log, LAMBDA e : e.round = llm_calls)) =
                    Cardinality({i \in 1..Len(pending_tool_calls) :
                                    RoutedLive(pending_tool_calls[i])})

\* C39 witness: a round of two calls, the first with text that is not JSON
\* and the second with an object, was executed in full
C39_Witness ==
    /\ ToolRoundOpen
    /\ state = "ReadyToCallLlm"
    /\ Len(pending_tool_calls) = 2
    /\ llm_response.tool_calls[1].arguments = "not json"
    /\ pending_tool_calls[1].arguments = {}
    /\ pending_tool_calls[2].arguments = {"x"}
    /\ Len(tool_call_results) = 2
    /\ Len(tool_log) = 2

----------------------------------------------------------------------------
\* the last reply of the LLM was a response without choices
NoChoices == Len(llm_log) > 0 /\ llm_log[Len(llm_log)] = "no_choices"

\* C40: If the LLM returns a response with no choices, the FSM goes from
\* AwaitingLlmResponse to Error and process() fails: the loop can only be
\* left through the error return, the caller receives an error, the rows the
\* invocation added hold no assistant entry, and from then on no tool is
\* executed, no LLM call is made and the transcript gets no new message.
C40_NoChoicesEndsInvocation ==
    /\ [](NoChoices =>
            /\ state = "Error"
            /\ pc = "loop" => ENABLED ProcessReturnError
            /\ Returned => ~result.ok
            /\ \A k \in 1..Len(NewRows) : NewRows[k].role # "assistant")
    /\ [][(state = "AwaitingLlmResponse" /\ ~NoChoices /\ NoChoices') =>
            /\ state' = "Error"
            /\ messages' = messages
            /\ tool_log' = tool_log]_vars
    /\ [][NoChoices =>
            /\ llm_calls' = llm_calls
            /\ llm_log' = llm_log
            /\ tool_log' = tool_log
            /\ messages' = messages
            /\ state' = "Error"]_vars

\* C40 witness: the second LLM call of an invocation, made after a tool
\* round, returned a response without choices and the invocation returned
C40_Witness ==
    /\ Returned
    /\ NoChoices
    /\ Len(llm_log) = 2
    /\ Len(tool_log) > 0
    /\ ~result.ok
    /\ state = "Error"

============================================================================
